---- MODULE Spec2Model ----
(***************************************************************************)
(* Two Streamlit dashboards over one remote GDP snapshot.                  *)
(*   src/1.py  - search / pagination / statistics / download dashboard     *)
(*   src/2.py  - KPI cards and chart gallery dashboard                     *)
(* Every user interaction re-executes main() from the top; the only state  *)
(* that survives a rerun is the st.cache_data slot of load_data and the    *)
(* values of the widgets that the previous run rendered.                   *)
(*                                                                         *)
(* Numbers are exact rationals (n/d) or NaN: float rounding is not         *)
(* modelled.  Text is a sequence of one-character strings.                 *)
(***************************************************************************)
EXTENDS Integers, Sequences, FiniteSets, TLC

VARIABLES
    app,        \* "1" or "2": which script this process runs
    remote,     \* the remote source: [fail, data]
    cache,      \* the st.cache_data slot of load_data
    w,          \* values of the widgets, as the user left them
    out         \* what the last run of main() computed and rendered

vars == <<app, remote, cache, w, out>>

----------------------------------------------------------------------------
(* Bounds of the model *)

MaxRowsA == 21      \* longest snapshot fed to dashboard 1
MaxRowsB == 4       \* longest snapshot fed to dashboard 2
MaxTermLen == 2     \* longest search term typed

(* Program constants *)

MinPageSize == 10
MaxPageSize == 100
DefaultPageSize == 20
MinYearKept == 2000
PieMinYears == 3
PieMaxYears == 10
PieDefaultYears == 5

----------------------------------------------------------------------------
(* Numbers: a rational n/d in lowest terms with d > 0, or NaN *)

NaN == [nan |-> TRUE, n |-> 0, d |-> 1]

Abs(i) == IF i < 0 THEN -i ELSE i

RECURSIVE GCD(_, _)
GCD(a, b) == IF b = 0 THEN a ELSE GCD(b, a % b)

Rat(n, d) ==
    LET g == GCD(Abs(n), Abs(d))
        s == IF d < 0 THEN -1 ELSE 1
    IN [nan |-> FALSE, n |-> s * (n \div g), d |-> s * (d \div g)]

Num(i) == [nan |-> FALSE, n |-> i, d |-> 1]

Zero == Num(0)

RatSub(a, b) ==
    IF a.nan \/ b.nan THEN NaN ELSE Rat(a.n * b.d - b.n * a.d, a.d * b.d)

RatAdd(a, b) ==
    IF a.nan \/ b.nan THEN NaN ELSE Rat(a.n * b.d + b.n * a.d, a.d * b.d)

RatMul(a, b) ==
    IF a.nan \/ b.nan THEN NaN ELSE Rat(a.n * b.n, a.d * b.d)

\* float64 division: x / 0 is +-inf (written n/0) and 0 / 0 is NaN
RatDiv(a, b) ==
    IF a.nan \/ b.nan THEN NaN
    ELSE IF b.n = 0
    THEN (IF a.n = 0 THEN NaN ELSE [nan |-> FALSE, n |-> IF a.n > 0 THEN 1 ELSE -1, d |-> 0])
    ELSE Rat(a.n * b.d, a.d * b.n)

RatGt(a, b) == ~a.nan /\ ~b.nan /\ a.n * b.d > b.n * a.d

----------------------------------------------------------------------------
(* Text *)

Text(s) == [missing |-> FALSE, s |-> s]
MissingText == [missing |-> TRUE, s |-> <<>>]

Lower(c) ==
    CASE c = "A" -> "a"
      [] c = "B" -> "b"
      [] c = "N" -> "n"
      [] c = "T" -> "t"
      [] OTHER -> c

DigitChar(i) == <<"0", "1", "2", "3", "4", "5", "6", "7", "8", "9">>[i + 1]

RECURSIVE Digits(_)
Digits(i) == IF i < 10 THEN <<DigitChar(i)>> ELSE Digits(i \div 10) \o <<DigitChar(i % 10)>>

\* str() of a float64 cell holding a whole number, or of NaN
StrOfNum(v) == IF v.nan THEN <<"n", "a", "n">> ELSE Digits(v.n) \o <<".", "0">>

\* strftime('%Y-%m-%d') of a date that falls on 1 January
DayText(year) == Digits(year) \o <<"-", "0", "1", "-", "0", "1">>

\* str() of a Timestamp (whole seconds print no fraction) or of NaT
StrOfDate(dt) ==
    IF dt.nat THEN <<"N", "a", "T">>
    ELSE DayText(dt.year) \o <<" ", "0", "0", ":", "0", "0", ":", "0", "0">>
         \o (IF dt.frac = 0 THEN <<>>
             ELSE <<".", "0", "0", "0", "0", "0", "0", "0", "0", DigitChar(dt.frac)>>)

StrOfText(t) == IF t.missing THEN <<"n", "a", "n">> ELSE t.s

----------------------------------------------------------------------------
(* The remote snapshot: columns date, sector, x, y *)

NaT == [nat |-> TRUE, year |-> 0, frac |-> 0]
Date(y, f) == [nat |-> FALSE, year |-> y, frac |-> f]

RawRow(dt, sec, x, y) == [date |-> dt, sector |-> Text(sec), x |-> x, y |-> y]

RowPool ==
    << RawRow(Date(2002, 0), <<"a", "B">>, Num(100), Num(2)),
       RawRow(Date(2001, 5), <<"b">>,      Num(50),  Num(1)),
       RawRow(Date(2001, 0), <<"A", "b">>, NaN,      NaN),
       RawRow(Date(2004, 0), <<"a">>,      Num(50),  NaN),
       RawRow(Date(2003, 0), <<"b">>,      Num(0),   Num(3)),
       RawRow(Date(1999, 0), <<"b", "a">>, Num(100), Num(1)),
       RawRow(NaT,           <<"a">>,      Num(0),   Num(0)) >>

PoolSize == Len(RowPool)

\* snapshots for dashboard 1: n rows cycling through the pool from its first
\* row, and the short ones from every row of the pool
CyclicTable(n, off) == [i \in 1..n |-> RowPool[((i + off - 1) % PoolSize) + 1]]

SnapshotsA ==
    {CyclicTable(n, 0) : n \in 0..MaxRowsA}
        \cup {CyclicTable(n, off) : n \in 1..2, off \in 1..(PoolSize - 1)}

\* snapshots for dashboard 2: up to MaxRowsB different pool rows, in pool
\* order (which is not year order)
RECURSIVE RowsAt(_)
RowsAt(S) ==
    IF S = {} THEN <<>>
    ELSE LET i == CHOOSE m \in S : \A e \in S : m <= e
         IN <<RowPool[i]>> \o RowsAt(S \ {i})

SnapshotsB == {RowsAt(S) : S \in {T \in SUBSET (1..PoolSize) : Cardinality(T) <= MaxRowsB}}

FailureKinds == {"network", "parse"}

\* the exception pd.read_parquet raises for a failing fetch
FetchException(kind) ==
    IF kind = "network"
    THEN [type |-> "URLError", msg |-> "connection failed"]
    ELSE [type |-> "ArrowInvalid", msg |-> "not a parquet file"]

NoException == [type |-> "", msg |-> ""]

\* what a call of load_data hands back: a table, or nothing when it raised
\* (neither script builds an error value with a category and a message)
ReturnedTable == [kind |-> "table", category |-> "", message |-> ""]
ReturnedNothing == [kind |-> "none", category |-> "", message |-> ""]

----------------------------------------------------------------------------
(* The cache slot of st.cache_data *)

EmptyCache == [full |-> FALSE, df |-> <<>>, replay |-> ""]

----------------------------------------------------------------------------
(* Dashboard 1: load_data *)

\* .dt.floor('s')
FloorSeconds(dt) == IF dt.nat THEN dt ELSE [dt EXCEPT !.frac = 0]

\* .dt.strftime('%Y-%m-%d')
Strftime(dt) == IF dt.nat THEN MissingText ELSE Text(DayText(dt.year))

PrepareRow1(r) ==
    LET dt == FloorSeconds(r.date)
    IN [date |-> dt, sector |-> r.sector, x |-> r.x, y |-> r.y, date_str |-> Strftime(dt)]

Prepare1(data) == [i \in 1..Len(data) |-> PrepareRow1(data[i])]

\* the call load_data() of 1.py through its st.cache_data wrapper
LoadData1AlwaysFetches(c, r) ==
    IF r.fail # "none"
    THEN [df |-> <<>>, raised |-> TRUE, exc |-> FetchException(r.fail), fetched |-> TRUE,
          st_error |-> "", returned |-> ReturnedNothing, cache |-> c]
    ELSE [df |-> Prepare1(r.data), raised |-> FALSE, exc |-> NoException, fetched |-> TRUE,
          st_error |-> "", returned |-> ReturnedTable,
          cache |-> [full |-> TRUE, df |-> Prepare1(r.data), replay |-> ""]]

LoadData1(c, r) ==
    IF c.full
    THEN [df |-> c.df, raised |-> FALSE, exc |-> NoException, fetched |-> FALSE,
          st_error |-> "", returned |-> ReturnedTable, cache |-> c]
    ELSE IF r.fail # "none"
    THEN [df |-> <<>>, raised |-> TRUE, exc |-> FetchException(r.fail), fetched |-> TRUE,
          st_error |-> "", returned |-> ReturnedNothing, cache |-> c]
    ELSE [df |-> Prepare1(r.data), raised |-> FALSE, exc |-> NoException, fetched |-> TRUE,
          st_error |-> "", returned |-> ReturnedTable,
          cache |-> [full |-> TRUE, df |-> Prepare1(r.data), replay |-> ""]]

----------------------------------------------------------------------------
(* Widgets and the record of a run *)

DefaultW ==
    [search_term |-> <<>>, page_size |-> DefaultPageSize, page |-> 1,
     chart_type |-> "trend", selected_metrics |-> <<>>, year_range |-> <<0, 0>>,
     selected_metric |-> "x", num_years |-> PieDefaultYears,
     comparison_years |-> <<>>, x_metric |-> "x", y_metric |-> "y"]

NoKpi ==
    [shown |-> FALSE, latest_year |-> 0, prev_year |-> 0,
     latest_value |-> Zero, prev_value |-> Zero, growth |-> Zero]

\* status: "ok"         main() ran to its last line
\*         "error"      1.py: the except branch of main() reported an exception
\*         "load_error" 2.py: df.empty, main() returned after its notice
\*         "returned"   2.py: a chart branch returned from main()
\*         "crash"      2.py: an exception left main()
BlankOut ==
    [ran |-> FALSE, status |-> "ok",
     load |-> [raised |-> FALSE, exc |-> NoException, fetched |-> FALSE, st_error |-> "",
               returned |-> ReturnedNothing],
     df |-> <<>>, exc |-> NoException, notices |-> {},
     mode |-> "none", shown |-> <<>>, total_pages |-> 0, start_idx |-> 0, end_idx |-> 0,
     tabs |-> {}, date_info |-> [shown |-> FALSE, min |-> NaT, max |-> NaT],
     table_after |-> <<>>,
     years |-> <<>>, kpi |-> NoKpi, config |-> FALSE, chart |-> FALSE, series |-> <<>>,
     heat |-> <<>>, corr_rows |-> <<>>, footer |-> FALSE]

LoadInfo(ld) ==
    [raised |-> ld.raised, exc |-> ld.exc, fetched |-> ld.fetched, st_error |-> ld.st_error,
     returned |-> ld.returned]

----------------------------------------------------------------------------
(* Dashboard 1: search *)

\* row.astype(str): the string form of every cell of a row
RowStrings1(row) ==
    <<StrOfDate(row.date), StrOfText(row.sector), StrOfNum(row.x), StrOfNum(row.y),
      StrOfText(row.date_str)>>

\* re.compile(pat): within the characters a term is typed from, a pattern
\* fails to compile exactly when it opens a group that is never closed
RegexCompiles(pat) == \A k \in 1..Len(pat) : pat[k] # "("

\* the compiled pattern matches s at position i, ignoring case; "." matches
\* any character
RegexMatchAt(pat, s, i) ==
    \A k \in 1..Len(pat) :
        /\ i + k - 1 <= Len(s)
        /\ \/ pat[k] = "."
           \/ Lower(pat[k]) = Lower(s[i + k - 1])

\* Series.str.contains(pat, case=False, na=False) on one cell: regex=True is
\* the default, so pat is searched as a regular expression
StrContains(s, pat) == \E i \in 1..(Len(s) - Len(pat) + 1) : RegexMatchAt(pat, s, i)

RowMatches(row, term) ==
    LET cells == RowStrings1(row)
    IN \E c \in 1..Len(cells) : StrContains(cells[c], term)

\* df[mask]
SearchRows(df, term) ==
    LET Keep(row) == RowMatches(row, term)
    IN SelectSeq(df, Keep)

\* df.apply(..., axis=1) compiles the pattern when it reaches the first row
SearchRaises(df, term) == Len(df) > 0 /\ ~RegexCompiles(term)

ReError == [type |-> "error", msg |-> "missing ), unterminated subpattern"]

----------------------------------------------------------------------------
(* Dashboard 1: pagination *)

SetMinYear(S) == CHOOSE m \in S : \A e \in S : m <= e
SetMaxYear(S) == CHOOSE m \in S : \A e \in S : m >= e

Max(a, b) == IF a >= b THEN a ELSE b
Min(a, b) == IF a <= b THEN a ELSE b

\* a page count that rounds up
TotalPagesCeiling(n, page_size) == Max(1, (n + page_size - 1) \div page_size)

TotalPages(n, page_size) == Max(1, n \div page_size)

StartIdxOffByOnePage(page, page_size) == page * page_size

StartIdx(page, page_size) == (page - 1) * page_size

\* an end index that is not clamped to the table
EndIdxUnclamped(start_idx, page_size, n) == start_idx + page_size

EndIdx(start_idx, page_size, n) == Min(start_idx + page_size, n)

\* df.iloc[start:end]
Iloc(df, start, end) == SubSeq(df, Min(start, Len(df)) + 1, Min(end, Len(df)))

\* the rows st.dataframe shows for a page
PageWindow(df, page_size, page) ==
    Iloc(df, StartIdx(page, page_size),
         EndIdx(StartIdx(page, page_size), page_size, Len(df)))

----------------------------------------------------------------------------
(* Dashboard 1: main() *)

\* the except branch of main() after the run has rendered o: it adds the
\* error report and the run ends
ExceptAfter(o, e) ==
    [o EXCEPT !.status = "error", !.exc = e,
              !.notices = {"load failed, check the network or retry"}]

\* the except branch reached before anything of the tabs is rendered
ExceptBranch(ld, e) ==
    ExceptAfter([BlankOut EXCEPT !.ran = TRUE, !.load = LoadInfo(ld), !.df = ld.df,
                                 !.table_after = ld.df], e)

\* st.number_input keeps the user's page only while the widget is the same
\* one (same bounds) as in the previous run
PageValue(wIn, prev, total) ==
    IF prev.mode = "paged" /\ prev.total_pages = total /\ wIn.page <= total
    THEN wIn.page ELSE 1

\* tab 2, date column info: Series.min() and Series.max() skip missing values
\* and are NaT when there is none
DateYears(df) == {df[i].date.year : i \in {k \in 1..Len(df) : ~df[k].date.nat}}

DateMin(df) == IF DateYears(df) = {} THEN NaT ELSE Date(SetMinYear(DateYears(df)), 0)
DateMax(df) == IF DateYears(df) = {} THEN NaT ELSE Date(SetMaxYear(DateYears(df)), 0)

\* Timestamp.date() raises for no timestamp
DateOfRaisesOnNaT(ts) == [raised |-> ts.nat, value |-> ts]

\* df[date_col].min().date(): the day of the timestamp; NaT.date() is NaT
DateOf(ts) == [raised |-> FALSE, value |-> ts]

DateError == [type |-> "ValueError", msg |-> "NaTType does not support date"]

\* the rows of df in ascending date order, rows without a date last (rows of
\* the same date keep their order; the chart and the three metrics of tab 3
\* do not depend on it)
RECURSIVE RowsByYear(_, _)
RowsByYear(df, S) ==
    IF S = {}
    THEN LET Undated(row) == row.date.nat IN SelectSeq(df, Undated)
    ELSE LET OfFirstYear(row) == ~row.date.nat /\ row.date.year = SetMinYear(S)
         IN SelectSeq(df, OfFirstYear) \o RowsByYear(df, S \ {SetMinYear(S)})

SortedByDate(df) == RowsByYear(df, DateYears(df))

\* a sort_values(inplace=True): the frame it is called on is reordered
SortValuesInPlace(df) == [result |-> SortedByDate(df), frame |-> SortedByDate(df)]

\* df.sort_values('date'): the result is a new frame, the frame it is called
\* on is left as it was
SortValues(df) == [result |-> SortedByDate(df), frame |-> df]

\* tabs 2 to 4 after tab 1 has rendered o; table_after is df when the run ends
\* (tab 4 exports df and df.copy() and shows df.head(10))
Tabs2To4(o, df) ==
    LET earliest == DateOf(DateMin(df))
        latest == DateOf(DateMax(df))
        sorted == SortValues(df)
    IN IF earliest.raised \/ latest.raised
       THEN ExceptAfter([o EXCEPT !.tabs = {1}, !.table_after = df], DateError)
       ELSE [o EXCEPT !.tabs = {1, 2, 3, 4},
                      !.date_info = [shown |-> TRUE, min |-> earliest.value,
                                     max |-> latest.value],
                      !.table_after = sorted.frame]

Main1(ld, wIn, prev) ==
    IF ld.raised THEN [o |-> ExceptBranch(ld, ld.exc), w |-> DefaultW]
    ELSE IF wIn.search_term # <<>>
    THEN IF SearchRaises(ld.df, wIn.search_term)
         THEN [o |-> ExceptBranch(ld, ReError),
               w |-> [DefaultW EXCEPT !.search_term = wIn.search_term]]
         ELSE [o |-> Tabs2To4([BlankOut EXCEPT !.ran = TRUE, !.load = LoadInfo(ld),
                                               !.df = ld.df, !.mode = "search",
                                               !.shown = SearchRows(ld.df, wIn.search_term)],
                              ld.df),
               w |-> [DefaultW EXCEPT !.search_term = wIn.search_term]]
    ELSE LET n == Len(ld.df)
             total == TotalPages(n, wIn.page_size)
             page == PageValue(wIn, prev, total)
             start == StartIdx(page, wIn.page_size)
             end == EndIdx(start, wIn.page_size, n)
         IN [o |-> Tabs2To4([BlankOut EXCEPT !.ran = TRUE, !.load = LoadInfo(ld),
                                             !.df = ld.df, !.mode = "paged",
                                             !.shown = PageWindow(ld.df, wIn.page_size, page),
                                             !.total_pages = total,
                                             !.start_idx = start, !.end_idx = end],
                            ld.df),
             w |-> [DefaultW EXCEPT !.page_size = wIn.page_size, !.page = page]]

----------------------------------------------------------------------------
(* One execution of the script with the widget values wIn *)

Run1(wIn) ==
    \E ld \in {LoadData1(cache, remote)} :
       \E r \in {Main1(ld, wIn, out)} :
          /\ cache' = ld.cache
          /\ out' = r.o
          /\ w' = r.w
       /\ UNCHANGED <<app, remote>>

TermChars == {"A", ".", "("}

RECURSIVE SeqsUpTo(_, _)
SeqsUpTo(S, n) ==
    IF n = 0 THEN {<<>>}
    ELSE LET shorter == SeqsUpTo(S, n - 1)
         IN shorter \cup {Append(s, c) : s \in shorter, c \in S}

Terms == SeqsUpTo(TermChars, MaxTermLen)

\* the user types into the search box
SetSearchTerm ==
    /\ app = "1"
    /\ out.ran /\ ~out.load.raised
    /\ \E t \in Terms : t # w.search_term /\ Run1([w EXCEPT !.search_term = t])

\* the slider positions tried: every position past the longest snapshot shows
\* the whole table, so of those only the first and the last are tried
PageSizes == {ps \in MinPageSize..MaxPageSize : ps <= MaxRowsA + 1 \/ ps = MaxPageSize}

\* the user moves the page-size slider
SetPageSize ==
    /\ app = "1"
    /\ out.mode = "paged"
    /\ \E ps \in PageSizes :
          ps # w.page_size /\ Run1([w EXCEPT !.page_size = ps])

\* the user picks a page within the bounds of the number input
SetPage ==
    /\ app = "1"
    /\ out.mode = "paged"
    /\ \E pg \in 1..out.total_pages : pg # w.page /\ Run1([w EXCEPT !.page = pg])

\* the user reruns the script (or the first run of a session)
Rerun1 == app = "1" /\ Run1(w)

RemoteStates(snapshots) ==
    {[fail |-> f, data |-> d] : f \in FailureKinds \cup {"none"}, d \in snapshots}

\* before the first run: nothing cached, nothing rendered
InitA ==
    /\ app = "1"
    /\ remote \in RemoteStates(SnapshotsA)
    /\ cache = EmptyCache
    /\ w = DefaultW
    /\ out = BlankOut

NextA == Rerun1 \/ SetSearchTerm \/ SetPageSize \/ SetPage

SpecA == InitA /\ [][NextA]_vars

----------------------------------------------------------------------------
(* Dashboard 2: load_data *)

HasNaT(data) == \E i \in 1..Len(data) : data[i].date.nat

\* df['year'] = df['date'].dt.year ; df['year_str'] = df['year'].astype(str)
\* (a NaT anywhere makes the year column float64, whose strings end in ".0")
PrepareRow2(r, float_years) ==
    [date |-> r.date, sector |-> r.sector, x |-> r.x, y |-> r.y,
     year |-> r.date.year,
     year_str |-> IF r.date.nat THEN <<"n", "a", "n">>
                  ELSE Digits(r.date.year) \o (IF float_years THEN <<".", "0">> ELSE <<>>)]

\* df = df[df['year'] >= 2000]: a NaN year compares False
KeepsYear(r) == ~r.date.nat /\ r.date.year >= MinYearKept

Prepare2(data) ==
    LET kept == SelectSeq(data, KeepsYear)
    IN [i \in 1..Len(kept) |-> PrepareRow2(kept[i], HasNaT(data))]

\* the call load_data() of 2.py through its st.cache_data wrapper: the except
\* branch reports the error and returns an empty frame, which is a normal
\* return value for the wrapper (stored together with the st.error element)
LoadData2(c, r) ==
    IF c.full
    THEN [df |-> c.df, raised |-> FALSE, exc |-> NoException, fetched |-> FALSE,
          st_error |-> c.replay, returned |-> ReturnedTable, cache |-> c]
    ELSE IF r.fail # "none"
    THEN [df |-> <<>>, raised |-> FALSE, exc |-> NoException, fetched |-> TRUE,
          st_error |-> FetchException(r.fail).msg, returned |-> ReturnedTable,
          cache |-> [full |-> TRUE, df |-> <<>>, replay |-> FetchException(r.fail).msg]]
    ELSE [df |-> Prepare2(r.data), raised |-> FALSE, exc |-> NoException, fetched |-> TRUE,
          st_error |-> "", returned |-> ReturnedTable,
          cache |-> [full |-> TRUE, df |-> Prepare2(r.data), replay |-> ""]]

----------------------------------------------------------------------------
(* Dashboard 2: years and statistics *)

NumericCols == <<"x", "y">>

Cell(row, metric) == IF metric = "x" THEN row.x ELSE row.y

SetMin(S) == CHOOSE m \in S : \A e \in S : m <= e
SetMax(S) == CHOOSE m \in S : \A e \in S : m >= e

RECURSIVE Ascending(_)
Ascending(S) == IF S = {} THEN <<>> ELSE <<SetMin(S)>> \o Ascending(S \ {SetMin(S)})

RECURSIVE Descending(_)
Descending(S) == IF S = {} THEN <<>> ELSE <<SetMax(S)>> \o Descending(S \ {SetMax(S)})

YearSet(df) == {df[i].year : i \in 1..Len(df)}

\* sorted(df['year'].unique())
Years(df) == Ascending(YearSet(df))

\* df[df['year'] == year]
RowsOfYear(df, year) ==
    LET Keep(row) == row.year = year
    IN SelectSeq(df, Keep)

\* df[(df['year'] >= lo) & (df['year'] <= hi)]
RowsInRange(df, lo, hi) ==
    LET Keep(row) == row.year >= lo /\ row.year <= hi
    IN SelectSeq(df, Keep)

RECURSIVE SumSkipNa(_, _)
SumSkipNa(rows, metric) ==
    IF rows = <<>> THEN Zero
    ELSE LET v == Cell(Head(rows), metric)
             rest == SumSkipNa(Tail(rows), metric)
         IN IF v.nan THEN rest ELSE RatAdd(v, rest)

CountNotNa(rows, metric) == Cardinality({i \in 1..Len(rows) : ~Cell(rows[i], metric).nan})

\* Series.sum(): missing values are skipped, the sum of none is 0
ColSum(rows, metric) == SumSkipNa(rows, metric)

\* Series.mean(): missing values are skipped, the mean of none is NaN
ColMean(rows, metric) ==
    IF CountNotNa(rows, metric) = 0 THEN NaN
    ELSE RatDiv(SumSkipNa(rows, metric), Num(CountNotNa(rows, metric)))

\* df.groupby('year')[metric].mean().reset_index(): one entry per year that
\* has rows, in ascending year order
GroupMean(df, metric) ==
    LET ys == Years(df)
    IN [i \in 1..Len(ys) |-> [year |-> ys[i], value |-> ColMean(RowsOfYear(df, ys[i]), metric)]]

----------------------------------------------------------------------------
(* Dashboard 2: KPI cards *)

InSeq(e, s) == \E i \in 1..Len(s) : s[i] = e

\* a comparison year that is always the calendar year before
PrevYearByCalendar(latest_year, years) == latest_year - 1

PrevYear(latest_year, years) ==
    IF InSeq(latest_year - 1, years) THEN latest_year - 1
    ELSE IF Len(years) > 1 THEN years[Len(years) - 1] ELSE latest_year

YearValue(df, year, metric) ==
    IF RowsOfYear(df, year) # <<>> THEN ColMean(RowsOfYear(df, year), metric) ELSE Zero

GrowthUnguarded(latest_value, prev_value) ==
    RatMul(RatDiv(RatSub(latest_value, prev_value), prev_value), Num(100))

Growth(latest_value, prev_value) ==
    IF prev_value # Zero
    THEN RatMul(RatDiv(RatSub(latest_value, prev_value), prev_value), Num(100))
    ELSE Zero

Kpi(df, years) ==
    IF Len(years) > 1
    THEN LET latest_year == years[Len(years)]
             prev_year == PrevYear(latest_year, years)
             latest_value == YearValue(df, latest_year, NumericCols[1])
             prev_value == YearValue(df, prev_year, NumericCols[1])
         IN [shown |-> TRUE, latest_year |-> latest_year, prev_year |-> prev_year,
             latest_value |-> latest_value, prev_value |-> prev_value,
             growth |-> Growth(latest_value, prev_value)]
    ELSE NoKpi

----------------------------------------------------------------------------
(* Dashboard 2: configuration panel *)

ChartTypes == {"trend", "bar", "pie", "heatmap", "scatter", "area"}

LastN(s, n) == IF Len(s) >= n THEN SubSeq(s, Len(s) - n + 1, Len(s)) ELSE s
FirstN(s, n) == IF Len(s) >= n THEN SubSeq(s, 1, n) ELSE s

\* the value of every configuration variable before the panel is built
\* (lines 254-261) and the default of every widget of the panel
ConfigDefaults(ct, years) ==
    LET min_year == years[1]
        max_year == years[Len(years)]
    IN [selected_metrics |-> IF ct \in {"trend", "area"} THEN FirstN(NumericCols, 3) ELSE <<>>,
        year_range |-> IF ct = "heatmap" /\ max_year - min_year >= 9
                       THEN <<max_year - 9, max_year>> ELSE <<min_year, max_year>>,
        selected_metric |-> NumericCols[1],
        num_years |-> IF ct = "pie" THEN Min(PieDefaultYears, Len(years)) ELSE PieDefaultYears,
        comparison_years |-> LastN(years, 5),
        x_metric |-> NumericCols[1],
        y_metric |-> NumericCols[2]]

\* st.slider(min_value, max_value, value): the script pins no Streamlit
\* release, and releases differ on bounds that enclose no proper range.  A
\* "validating" slider raises StreamlitAPIException when the value lies
\* outside [min_value, max_value]; a "widening" slider stretches the bounds
\* over the value and never raises; a "distinct" slider stretches them too and
\* raises when they then coincide.
SliderReleases == {"validating", "widening", "distinct"}

SliderRaises(release, min_value, max_value, lo, hi) ==
    CASE release = "validating" -> ~(min_value <= lo /\ hi <= max_value)
      [] release = "widening" -> FALSE
      [] release = "distinct" ->
            Min(Min(min_value, max_value), lo) >= Max(Max(min_value, max_value), hi)

PieSliderRaises(release, years) ==
    SliderRaises(release, PieMinYears, Min(PieMaxYears, Len(years)),
                 Min(PieDefaultYears, Len(years)), Min(PieDefaultYears, Len(years)))

\* the sliders of the panel of chart type ct, built with their default values
PanelRaises(release, ct, years) ==
    LET d == ConfigDefaults(ct, years)
    IN CASE ct \in {"trend", "area", "heatmap"} ->
               SliderRaises(release, years[1], years[Len(years)],
                            d.year_range[1], d.year_range[2])
         [] ct = "pie" -> PieSliderRaises(release, years)
         [] OTHER -> FALSE

\* y_options: the numeric columns without x_metric; the y selectbox falls back
\* to its first option when its options change
YMetric(x_metric, y_metric) ==
    LET Other(m) == m # x_metric
        y_options == SelectSeq(NumericCols, Other)
    IN IF InSeq(y_metric, y_options) THEN y_metric ELSE y_options[1]

\* the widget values with which the panel leaves main()
Config(ct, wIn, fresh, years) ==
    LET d == ConfigDefaults(ct, years)
    IN IF fresh THEN d
       ELSE [d EXCEPT
               !.selected_metrics = IF ct \in {"trend", "area"} THEN wIn.selected_metrics ELSE @,
               !.year_range = IF ct \in {"trend", "area", "heatmap"} THEN wIn.year_range ELSE @,
               !.selected_metric = IF ct \in {"bar", "pie", "heatmap"} THEN wIn.selected_metric ELSE @,
               !.num_years = IF ct = "pie" THEN wIn.num_years ELSE @,
               !.comparison_years = IF ct = "bar" THEN wIn.comparison_years ELSE @,
               !.x_metric = IF ct = "scatter" THEN wIn.x_metric ELSE @,
               !.y_metric = IF ct = "scatter" THEN YMetric(wIn.x_metric, wIn.y_metric) ELSE @]

----------------------------------------------------------------------------
(* Dashboard 2: the chart branches.  Each yields what it adds to the run:   *)
(* the series handed to the chart, the notices, whether it drew a chart and *)
(* whether it returned from main().                                         *)

Branch(series, heat, corr_rows, chart, notices, returned) ==
    [series |-> series, heat |-> heat, corr_rows |-> corr_rows, chart |-> chart,
     notices |-> notices, returned |-> returned]

Declined(notice) == Branch(<<>>, <<>>, <<>>, FALSE, {notice}, FALSE)

\* trend chart and stacked area chart
TrendBranch(df, cfg) ==
    IF cfg.selected_metrics # <<>>
    THEN LET filtered_df == RowsInRange(df, cfg.year_range[1], cfg.year_range[2])
         IN IF filtered_df # <<>>
            THEN Branch([i \in 1..Len(cfg.selected_metrics) |->
                            GroupMean(filtered_df, cfg.selected_metrics[i])],
                        <<>>, <<>>, TRUE, {}, FALSE)
            ELSE Declined("no data in the selected year range")
    ELSE Declined("select at least one metric")

RECURSIVE ComparisonData(_, _, _)
ComparisonData(df, metric, comparison_years) ==
    IF comparison_years = <<>> THEN <<>>
    ELSE LET year == Head(comparison_years)
             year_data == RowsOfYear(df, year)
             rest == ComparisonData(df, metric, Tail(comparison_years))
         IN IF year_data # <<>>
            THEN <<[year |-> year, value |-> ColMean(year_data, metric)]>> \o rest
            ELSE rest

BarBranch(df, cfg) ==
    IF cfg.comparison_years # <<>>
    THEN LET comparison_data == ComparisonData(df, cfg.selected_metric, cfg.comparison_years)
         IN IF comparison_data # <<>>
            THEN Branch(<<comparison_data>>, <<>>, <<>>, TRUE, {}, FALSE)
            ELSE Declined("no data for the selected years")
    ELSE Declined("select at least one year")

RECURSIVE PieData(_, _, _)
PieData(df, metric, recent_years) ==
    IF recent_years = <<>> THEN <<>>
    ELSE LET year == Head(recent_years)
             year_data == RowsOfYear(df, year)
             rest == PieData(df, metric, Tail(recent_years))
         IN IF year_data # <<>>
            THEN <<[year |-> year, value |-> ColSum(year_data, metric)]>> \o rest
            ELSE rest

PieBranch(df, cfg, years) ==
    LET recent_years == FirstN(Descending({years[i] : i \in 1..Len(years)}), cfg.num_years)
        pie_data == PieData(df, cfg.selected_metric, recent_years)
    IN IF Len(pie_data) > 1
       THEN Branch(<<pie_data>>, <<>>, <<>>, TRUE, {}, FALSE)
       ELSE Declined("a pie chart needs at least 2 years of data")

\* the four synthetic quarters of a year: mean * (0.8 + 0.2 * period / 4)
QuarterValue(mean, period) == RatMul(mean, Rat(16 + period, 20))

RECURSIVE HeatmapData(_, _, _, _)
HeatmapData(df, metric, year, end_year) ==
    IF year > end_year THEN <<>>
    ELSE LET year_data == RowsOfYear(df, year)
             rest == HeatmapData(df, metric, year + 1, end_year)
         IN IF year_data # <<>>
            THEN [p \in 1..4 |-> [year |-> year, period |-> p,
                                  value |-> QuarterValue(ColMean(year_data, metric), p)]]
                 \o rest
            ELSE rest

HeatmapBranch(df, cfg) ==
    LET start_year == cfg.year_range[1]
        end_year == cfg.year_range[2]
    IN IF end_year - start_year + 1 < 2
       THEN Branch(<<>>, <<>>, <<>>, FALSE, {"a heatmap needs at least 2 years of data"}, TRUE)
       ELSE LET heatmap_data == HeatmapData(df, cfg.selected_metric, start_year, end_year)
            IN IF heatmap_data # <<>>
               THEN Branch(<<>>, heatmap_data, <<>>, TRUE, {}, FALSE)
               ELSE Declined("cannot build heatmap data")

\* a dropna() that looks at the x column only
DropNaOfXOnly(df, x_metric, y_metric) ==
    LET Keep(row) == ~Cell(row, x_metric).nan
    IN SelectSeq(df, Keep)

\* scatter_df[[x_metric, y_metric, 'year_str']].dropna()
DropNa(df, x_metric, y_metric) ==
    LET Keep(row) == ~Cell(row, x_metric).nan /\ ~Cell(row, y_metric).nan
    IN SelectSeq(df, Keep)

\* the scatter view (px.scatter with trendline="ols" is taken to draw, i.e. the
\* plotting packages it imports are installed); corr_rows are the rows handed
\* to Series.corr
ScatterBranch(df, cfg) ==
    IF cfg.x_metric # cfg.y_metric
    THEN LET scatter_df == DropNa(df, cfg.x_metric, cfg.y_metric)
         IN IF Len(scatter_df) < 2
            THEN Branch(<<>>, <<>>, <<>>, FALSE, {"not enough data points for a scatter plot"}, TRUE)
            ELSE Branch(<<>>, <<>>, scatter_df, TRUE, {}, FALSE)
    ELSE Declined("select two different metrics")

ChartBranch(ct, df, cfg, years) ==
    CASE ct \in {"trend", "area"} -> TrendBranch(df, cfg)
      [] ct = "bar" -> BarBranch(df, cfg)
      [] ct = "pie" -> PieBranch(df, cfg, years)
      [] ct = "heatmap" -> HeatmapBranch(df, cfg)
      [] ct = "scatter" -> ScatterBranch(df, cfg)

----------------------------------------------------------------------------
(* Dashboard 2: main() *)

WidgetsOf(ct, cfg) ==
    [DefaultW EXCEPT !.chart_type = ct,
                     !.selected_metrics = cfg.selected_metrics,
                     !.year_range = cfg.year_range,
                     !.selected_metric = cfg.selected_metric,
                     !.num_years = cfg.num_years,
                     !.comparison_years = cfg.comparison_years,
                     !.x_metric = cfg.x_metric,
                     !.y_metric = cfg.y_metric]

\* the run from the chart area on: a branch that returned from main() leaves
\* the footer (lines 719-753) unrendered
AfterChart(seen, b) ==
    [seen EXCEPT !.status = IF b.returned THEN "returned" ELSE "ok",
                 !.config = TRUE,
                 !.chart = b.chart,
                 !.series = b.series,
                 !.heat = b.heat,
                 !.corr_rows = b.corr_rows,
                 !.notices = b.notices,
                 !.footer = ~b.returned]

Main2(ld, wIn, fresh, slider_raises) ==
    LET ct == wIn.chart_type
        df == ld.df
        \* no statement of main() assigns into df: every filter builds a new
        \* frame and the scatter branch works on df.copy()
        base == [BlankOut EXCEPT !.ran = TRUE, !.load = LoadInfo(ld), !.df = df,
                                 !.table_after = df]
    IN IF df = <<>>
       THEN [o |-> [base EXCEPT !.status = "load_error",
                                !.notices = {"cannot load data, check the network or the source"}],
             w |-> [DefaultW EXCEPT !.chart_type = ct]]
       ELSE LET years == Years(df)
                kpi == Kpi(df, years)
                seen == [base EXCEPT !.years = years, !.kpi = kpi]
            IN IF slider_raises
               THEN [o |-> [seen EXCEPT !.status = "crash",
                                        !.exc = [type |-> "StreamlitAPIException",
                                                 msg |-> "slider bounds"]],
                     w |-> [DefaultW EXCEPT !.chart_type = ct]]
               ELSE LET cfg == Config(ct, wIn, fresh, years)
                    IN [o |-> AfterChart(seen, ChartBranch(ct, df, cfg, years)),
                        w |-> WidgetsOf(ct, cfg)]

\* whether the panel of this run raises, over the releases of st.slider
SliderOutcomes(ld, wIn) ==
    IF ld.df = <<>> THEN {FALSE}
    ELSE {PanelRaises(release, wIn.chart_type, Years(ld.df)) : release \in SliderReleases}

Run2(wIn, fresh) ==
    \E ld \in {LoadData2(cache, remote)} :
       \E slider_raises \in SliderOutcomes(ld, wIn) :
          \E r \in {Main2(ld, wIn, fresh, slider_raises)} :
             /\ cache' = ld.cache
             /\ out' = r.o
             /\ w' = r.w
       /\ UNCHANGED <<app, remote>>

\* the user reruns the script (or the first run of a session)
Rerun2 == app = "2" /\ Run2(w, ~out.config)

\* the user picks another chart type in the sidebar: the panel is built anew
SetChartType ==
    /\ app = "2"
    /\ out.ran
    /\ \E ct \in ChartTypes : ct # w.chart_type /\ Run2([w EXCEPT !.chart_type = ct], TRUE)

RECURSIVE Arrangements(_)
\* every selection of distinct elements of S, in every order
Arrangements(S) ==
    {<<>>} \cup UNION {{<<e>> \o t : t \in Arrangements(S \ {e})} : e \in S}

\* the metrics multiselect of the trend and area charts
SetSelectedMetrics ==
    /\ app = "2" /\ out.config /\ w.chart_type \in {"trend", "area"}
    /\ \E ms \in Arrangements({"x", "y"}) :
          ms # w.selected_metrics /\ Run2([w EXCEPT !.selected_metrics = ms], FALSE)

\* the year-range slider of the trend, area and heatmap charts
SetYearRange ==
    /\ app = "2" /\ out.config /\ w.chart_type \in {"trend", "area", "heatmap"}
    /\ \E lo \in out.years[1]..out.years[Len(out.years)] :
         \E hi \in lo..out.years[Len(out.years)] :
            <<lo, hi>> # w.year_range /\ Run2([w EXCEPT !.year_range = <<lo, hi>>], FALSE)

\* the metric selectbox of the bar, pie and heatmap charts
SetSelectedMetric ==
    /\ app = "2" /\ out.config /\ w.chart_type \in {"bar", "pie", "heatmap"}
    /\ \E m \in {"x", "y"} :
          m # w.selected_metric /\ Run2([w EXCEPT !.selected_metric = m], FALSE)

\* the number-of-years slider of the pie chart
SetNumYears ==
    /\ app = "2" /\ out.config /\ w.chart_type = "pie"
    /\ \E n \in PieMinYears..Min(PieMaxYears, Len(out.years)) :
          n # w.num_years /\ Run2([w EXCEPT !.num_years = n], FALSE)

\* the years multiselect of the bar chart: the value lists the years in the
\* order the user picked them
SetComparisonYears ==
    /\ app = "2" /\ out.config /\ w.chart_type = "bar"
    /\ \E ys \in Arrangements({out.years[i] : i \in 1..Len(out.years)}) :
          ys # w.comparison_years /\ Run2([w EXCEPT !.comparison_years = ys], FALSE)

\* the x-axis selectbox of the scatter chart
SetXMetric ==
    /\ app = "2" /\ out.config /\ w.chart_type = "scatter"
    /\ \E m \in {"x", "y"} : m # w.x_metric /\ Run2([w EXCEPT !.x_metric = m], FALSE)

InitB ==
    /\ app = "2"
    /\ remote \in RemoteStates(SnapshotsB)
    /\ cache = EmptyCache
    /\ w = DefaultW
    /\ out = BlankOut

NextB ==
    \/ Rerun2 \/ SetChartType \/ SetSelectedMetrics \/ SetYearRange \/ SetSelectedMetric
    \/ SetNumYears \/ SetComparisonYears \/ SetXMetric

SpecB == InitB /\ [][NextB]_vars

----------------------------------------------------------------------------
(* The loader of either script against a remote source that changes *)

PoolIndex(row) == CHOOSE i \in 1..PoolSize : RowPool[i] = row

\* the fetch starts to fail
RemoteFails ==
    /\ remote.fail = "none"
    /\ \E k \in FailureKinds : remote' = [remote EXCEPT !.fail = k]
    /\ UNCHANGED <<app, cache, w, out>>

\* the fetch works again
RemoteRecovers ==
    /\ remote.fail # "none"
    /\ remote' = [remote EXCEPT !.fail = "none"]
    /\ UNCHANGED <<app, cache, w, out>>

\* the provider publishes a snapshot with one more row
Publish ==
    /\ Len(remote.data) < MaxRowsB
    /\ \E i \in 1..PoolSize :
          /\ remote.data # <<>> => i > PoolIndex(remote.data[Len(remote.data)])
          /\ remote' = [remote EXCEPT !.data = Append(@, RowPool[i])]
    /\ UNCHANGED <<app, cache, w, out>>

\* "Clear cache" of the Streamlit menu empties the slot of st.cache_data
ClearCache ==
    /\ cache.full
    /\ cache' = EmptyCache
    /\ UNCHANGED <<app, remote, w, out>>

InitLoad ==
    /\ app \in {"1", "2"}
    /\ remote \in RemoteStates(SnapshotsB)
    /\ cache = EmptyCache
    /\ w = DefaultW
    /\ out = BlankOut

NextLoad == Rerun1 \/ Rerun2 \/ RemoteFails \/ RemoteRecovers \/ Publish \/ ClearCache

SpecLoad == InitLoad /\ [][NextLoad]_vars

----------------------------------------------------------------------------
(* Either dashboard under every interaction of its user *)

InitAll == InitA \/ InitB

NextAll == NextA \/ NextB

SpecAll == InitAll /\ [][NextAll]_vars

----------------------------------------------------------------------------
(* Claims about the loader *)

\* the last run fetched and the fetch failed
FetchFailed(o) == o.ran /\ o.load.fetched /\ (o.load.raised \/ o.load.st_error # "")

\* C2: the loader writes its cache slot only on a successful load: after a
\* load attempt whose fetch failed the slot holds no entry, and no run is
\* served a memoized failure; for both dashboards.
C2_FailedLoadIsNotCached ==
    /\ FetchFailed(out) => ~cache.full
    /\ (out.ran /\ ~out.load.fetched) => out.load.st_error = ""

PreparedBy(a, data) == IF a = "1" THEN Prepare1(data) ELSE Prepare2(data)

HoldsTable(c) == c.full /\ c.replay = ""

\* C3: once a load has succeeded every later load call returns the cached
\* table without fetching; the slot changes only by being cleared (the forced
\* reload), and the fetch after that stores the whole table prepared from the
\* snapshot then published.
C3_CachedTableServedUntilCleared ==
    [][/\ HoldsTable(cache) => (cache' = cache \/ cache' = EmptyCache)
       /\ (HoldsTable(cache) /\ out' # out) =>
              (~out'.load.fetched /\ out'.df = cache.df /\ cache' = cache)
       /\ (HoldsTable(cache') /\ cache' # cache) =>
              (~cache.full /\ out'.load.fetched /\ out'.df = cache'.df
                 /\ cache'.df = PreparedBy(app, remote.data))]_vars

\* a run served the cached table although the provider has published a
\* different snapshot since
C3_Witness ==
    /\ out.ran /\ ~out.load.fetched /\ HoldsTable(cache) /\ out.df = cache.df
    /\ remote.fail = "none" /\ cache.df # PreparedBy(app, remote.data)

\* C4: when the fetch or parse fails, the load operation returns a structured
\* error value carrying a category (network, parse or schema) and the
\* underlying message, and no exception leaves the load operation.
C4_FailedLoadReturnsStructuredError ==
    FetchFailed(out) =>
        /\ ~out.load.raised
        /\ out.load.returned.kind = "error"
        /\ out.load.returned.category \in {"network", "parse", "schema"}
        /\ out.load.returned.message \in {FetchException(k).msg : k \in FailureKinds}

----------------------------------------------------------------------------
(* Claims about dashboard 1 *)

RECURSIVE ConcatPages(_, _, _)
ConcatPages(df, page_size, k) ==
    IF k = 0 THEN <<>>
    ELSE ConcatPages(df, page_size, k - 1) \o PageWindow(df, page_size, k)

\* C1: for every table and page size in [10,100], the windows of pages
\* 1..total_pages, concatenated in order, are the table itself: every row is
\* on exactly one page.
C1_PagesReproduceTable ==
    out.mode = "paged" =>
        ConcatPages(out.df, w.page_size, out.total_pages) = out.df

\* s contains term as a literal substring, ignoring case
LiteralContains(s, term) ==
    \E i \in 1..(Len(s) - Len(term) + 1) :
        \A k \in 1..Len(term) : Lower(s[i + k - 1]) = Lower(term[k])

LiteralRowMatches(row, term) ==
    LET cells == RowStrings1(row)
    IN \E c \in 1..Len(cells) : LiteralContains(cells[c], term)

LiteralFilter(df, term) ==
    LET Keep(row) == LiteralRowMatches(row, term)
    IN SelectSeq(df, Keep)

\* C5: for every table and non-empty term the search result is exactly the
\* rows, in order, with a cell whose string form contains the term as a
\* literal substring ignoring case; a search never ends in an error.
C5_SearchIsLiteralSubstringFilter ==
    /\ out.mode = "search" => out.shown = LiteralFilter(out.df, w.search_term)
    /\ out.status = "error" => out.load.raised

\* C6 as stated: with the empty term the rows presented are the full table,
\* same count and order, and no error is raised.
C6_EmptyTermShowsFullTable ==
    (~out.load.raised /\ w.search_term = <<>> /\ out.mode # "none") =>
        out.status = "ok" /\ out.shown = out.df

\* C6 amended: with the empty term no filter is applied and no error is
\* raised; the rows presented are the selected page of the table, i.e. its
\* rows (page-1)*page_size+1 .. min(page*page_size, row count) in table
\* order, which is the full table whenever row count <= page_size.
C6_EmptyTermShowsPageOfFullTable ==
    (~out.load.raised /\ w.search_term = <<>> /\ out.mode # "none") =>
        LET n == Len(out.df)
            first == (w.page - 1) * w.page_size
            last == IF w.page * w.page_size < n THEN w.page * w.page_size ELSE n
        IN /\ out.status = "ok"
           /\ out.mode = "paged"
           /\ Len(out.shown) = last - first
           /\ \A i \in 1..Len(out.shown) : out.shown[i] = out.df[first + i]
           /\ n <= w.page_size => out.shown = out.df

C6_Witness ==
    /\ out.mode = "paged" /\ w.search_term = <<>> /\ out.status = "ok"
    /\ w.page = 2 /\ Len(out.shown) = w.page_size /\ out.shown # out.df

----------------------------------------------------------------------------
(* Claims about dashboard 2 *)

\* C7: the growth of the KPI card is (latest - previous) / previous * 100
\* when previous is non-zero and 0 when previous is 0, no division by zero is
\* performed; growth(100, 50) = 100, growth(50, 0) = 0, growth(x, x) = 0 for
\* non-zero x.
C7_GrowthFormula ==
    out.kpi.shown =>
        LET l == out.kpi.latest_value
            p == out.kpi.prev_value
            g == out.kpi.growth
        IN /\ g.d # 0
           /\ p = Zero => g = Zero
           /\ (~l.nan /\ ~p.nan /\ p # Zero) =>
                 (~g.nan /\ g.n * p.n * l.d = (l.n * p.d - p.n * l.d) * 100 * g.d)
           /\ (l = Num(100) /\ p = Num(50)) => g = Num(100)
           /\ (l = Num(50) /\ p = Zero) => g = Zero
           /\ (l = p /\ ~p.nan /\ p # Zero) => g = Zero

C7_Witness ==
    /\ out.kpi.shown
    /\ out.kpi.latest_value = Num(50) /\ out.kpi.prev_value = Zero
    /\ out.kpi.growth = Zero

\* the metric of the i-th series handed to the chart
SeriesMetric(i) ==
    IF w.chart_type \in {"trend", "area"} THEN w.selected_metrics[i] ELSE w.selected_metric

\* C8: for every metric and statistic, a year whose rows all miss the metric
\* has no entry in the aggregation result (neither 0 nor NaN).
C8_AllMissingYearHasNoEntry ==
    \A i \in 1..Len(out.series) :
        \A j \in 1..Len(out.series[i]) :
            \E k \in 1..Len(out.df) :
                /\ out.df[k].year = out.series[i][j].year
                /\ ~Cell(out.df[k], SeriesMetric(i)).nan

\* C9: with exactly one distinct year in the loaded table and the pie view
\* selected, the run ends with the view declined by a notice; no exception
\* occurs anywhere in the run, the configuration panel included.
C9_SingleYearPieIsDeclined ==
    (out.ran /\ w.chart_type = "pie" /\ Cardinality(YearSet(out.df)) = 1) =>
        /\ out.status = "ok"
        /\ out.config /\ ~out.chart
        /\ out.notices = {"a pie chart needs at least 2 years of data"}

\* C10: whenever a derived view is declined, only that view is skipped with
\* a message and the run still completes: the footer is rendered.
C10_DeclinedViewKeepsFooter ==
    (out.ran /\ out.config /\ ~out.chart /\ out.notices # {}) =>
        out.status = "ok" /\ out.footer

\* C11: the loader restricts rows to a minimum year only when the caller
\* asks for it; by default every row of the fetched snapshot, rows of years
\* before 2000 included, is in the loaded table.
C11_NoMinimumYearByDefault ==
    (out.ran /\ remote.fail = "none") =>
        \A i \in 1..Len(remote.data) :
            \E k \in 1..Len(out.df) :
                /\ out.df[k].date = remote.data[i].date
                /\ out.df[k].sector = remote.data[i].sector
                /\ out.df[k].x = remote.data[i].x
                /\ out.df[k].y = remote.data[i].y

StrictlyAscendingByYear(series) ==
    \A j \in 1..(Len(series) - 1) : series[j].year < series[j + 1].year

StrictlyDescendingByYear(series) ==
    \A j \in 1..(Len(series) - 1) : series[j].year > series[j + 1].year

\* C12: every (year, value) series handed to a chart is ordered by year:
\* strictly ascending in the trend, area and bar views, whatever the order in
\* which the user picked the years, and strictly descending in the pie view.
C12_SeriesOrderedByYear ==
    \A i \in 1..Len(out.series) :
        IF w.chart_type = "pie"
        THEN StrictlyDescendingByYear(out.series[i])
        ELSE StrictlyAscendingByYear(out.series[i])

\* the rows of the loaded table in which both selected metrics are present
CompletePairs ==
    LET Complete(row) == ~Cell(row, w.x_metric).nan /\ ~Cell(row, w.y_metric).nan
    IN SelectSeq(out.df, Complete)

\* C14: with fewer than 2 rows that have both selected metrics, the
\* correlation view computes no coefficient and is declined with a notice;
\* with 2 or more, the coefficient is computed over exactly those rows.
C14_CorrelationOverCompletePairs ==
    (out.ran /\ w.chart_type = "scatter" /\ out.years # <<>>) =>
        IF Len(CompletePairs) < 2
        THEN out.corr_rows = <<>> /\ ~out.chart /\ out.notices # {}
        ELSE out.corr_rows = CompletePairs /\ out.chart /\ out.notices = {}

\* a coefficient computed although the table has rows that miss a metric
C14_Witness ==
    /\ w.chart_type = "scatter" /\ out.chart
    /\ Len(out.corr_rows) >= 2 /\ Len(out.corr_rows) < Len(out.df)

\* C18: whenever the KPI block is computed, prev_year is a year of the data,
\* is below latest_year, and no year of the data lies between them: it is the
\* second-largest year, whether or not latest_year - 1 is in the data.
C18_PrevYearIsSecondLargestYear ==
    out.kpi.shown =>
        /\ out.kpi.latest_year \in YearSet(out.df)
        /\ \A y \in YearSet(out.df) : y <= out.kpi.latest_year
        /\ out.kpi.prev_year \in YearSet(out.df)
        /\ out.kpi.prev_year < out.kpi.latest_year
        /\ \A y \in YearSet(out.df) : ~(out.kpi.prev_year < y /\ y < out.kpi.latest_year)

\* the KPI block of a table that lacks the year before its latest year
C18_Witness ==
    /\ out.kpi.shown
    /\ (out.kpi.latest_year - 1) \notin YearSet(out.df)
    /\ out.kpi.prev_year < out.kpi.latest_year - 1

----------------------------------------------------------------------------
(* Further claims about dashboard 1 *)

\* C13: when every value of the date column is missing, the statistics tab
\* reports its minimum and maximum as undefined and the run goes on: no error
\* outcome, and the remaining tabs are rendered.
C13_AllMissingDatesAreReportedUndefined ==
    (out.mode # "none" /\ Len(out.df) > 0 /\ \A i \in 1..Len(out.df) : out.df[i].date.nat) =>
        /\ out.status = "ok"
        /\ out.date_info.shown /\ out.date_info.min = NaT /\ out.date_info.max = NaT
        /\ out.tabs = {1, 2, 3, 4}

\* a run over a table that has rows, all without a date
C13_Witness ==
    /\ out.mode = "paged" /\ Len(out.df) > 0 /\ \A i \in 1..Len(out.df) : out.df[i].date.nat
    /\ out.status = "ok" /\ out.date_info.shown /\ out.date_info.min = NaT

\* C16: the number of pages offered is max(1, floor(row_count / page_size)):
\* the greatest count of whole pages the table fills, and 1 when it fills
\* none, an empty table included.
C16_TotalPagesIsFloorAtLeastOne ==
    out.mode = "paged" =>
        LET n == Len(out.df)
            p == w.page_size
        IN /\ out.total_pages >= 1
           /\ n < p => out.total_pages = 1
           /\ n >= p => (out.total_pages * p <= n /\ n < (out.total_pages + 1) * p)

\* the page count of an empty table
C16_Witness ==
    out.mode = "paged" /\ out.status = "ok" /\ out.df = <<>> /\ out.total_pages = 1

\* C17: the window [start_idx, end_idx) of every reachable page satisfies
\* 0 <= start_idx <= end_idx <= row_count and end_idx - start_idx <= p, its
\* rows are the table's rows start_idx+1 .. end_idx in table order; when
\* row_count >= p every reachable page holds exactly p rows, so the clamp of
\* end_idx takes effect only when row_count < p.
C17_PageWindowWithinTable ==
    out.mode = "paged" =>
        LET n == Len(out.df)
            p == w.page_size
        IN /\ w.page \in 1..out.total_pages
           /\ 0 <= out.start_idx /\ out.start_idx <= out.end_idx /\ out.end_idx <= n
           /\ out.end_idx - out.start_idx <= p
           /\ Len(out.shown) = out.end_idx - out.start_idx
           /\ \A i \in 1..Len(out.shown) : out.shown[i] = out.df[out.start_idx + i]
           /\ n >= p => out.end_idx - out.start_idx = p
           /\ out.end_idx # out.start_idx + p => n < p

\* a second page, and a table longer than the pages together
C17_Witness ==
    /\ out.mode = "paged" /\ w.page = 2 /\ out.start_idx = w.page_size
    /\ out.end_idx = 2 * w.page_size /\ out.end_idx < Len(out.df)

----------------------------------------------------------------------------
(* Claims about both dashboards *)

\* C15: after the loader returns, the loaded table is never modified: every
\* run, for every chart type, search term, page and configuration, leaves the
\* table as the loader returned it, and every run of a session observes the
\* same table.
C15_LoadedTableIsNeverModified ==
    [][/\ out'.table_after = out'.df
       /\ out.ran => out'.df = out.df]_vars

\* a run of dashboard 1 that sorted a table not in date order for its chart
C15_Witness ==
    /\ app = "1" /\ out.status = "ok" /\ Len(out.df) >= 2
    /\ SortValues(out.df).result # out.df /\ out.table_after = out.df

====
